---- MODULE Spec2Model ----
(***************************************************************************)
(* Flora1 (src/09_software): the alert filter (alert.py, class Alert) and  *)
(* the irrigation control (irrigation.py, class Irrigation; pump.py).      *)
(*                                                                         *)
(* Time is discrete.  One call of check_sensors / check_system /           *)
(* auto_irrigation reads the clock at a single instant `now`; defer_time   *)
(* and repeat_time are whole positive multiples of the time unit           *)
(* (settings.py:96-99 multiplies whole hours by 3600).                     *)
(* An uncaught Python exception ends the process: it is recorded in `exc`  *)
(* and no operation is enabled afterwards.                                 *)
(***************************************************************************)
EXTENDS Integers, Sequences, FiniteSets, TLC

\* ------------------------------------------------------------------ bounds
NSensors == 2        \* sensors in the dictionary handed to check_sensors
MaxDefer == 2        \* settings.alerts_defer_time  is drawn from DeferTimes
MaxRepeat == 3       \* settings.alerts_repeat_time is drawn from RepeatTimes
Horizon == 4         \* the clock runs from Epoch to Epoch + Horizon
MaxDuration == 2     \* longest pump run (loop iterations of power_on)
MaxRest == 1         \* settings.irr_rest, in clock units
MaxTout == 3           \* longest sensor message timeout, in clock units
MaxPeriod == 2         \* `period`: passes of the sleep loop (flora.py:397, 607)

\* time() at process start: the Unix clock is far beyond any defer / repeat
\* time, so (time() - 0) > defer_time and (time() - 0) > repeat_time.
Epoch == MaxDefer + MaxRepeat + 1
MaxTime == Epoch + Horizon

DeferTimes == {1, MaxDefer}
RepeatTimes == {MaxRepeat}

Filters == {"A", "B"}          \* two Alert instances (flora.py:481-492)
Modes == 0..4                  \* alert.py:9-18
SensorIdx == 0..(NSensors - 1) \* position i of enumerate(sensors), alert.py:130

VARIABLES
    now,            \* the clock: value returned by time()
    alert_tstamp,   \* Alert.alert_tstamp (class attribute, shared)
    defer_time,     \* self.defer_time  (= settings.alerts_defer_time)
    repeat_time,    \* self.repeat_time (= settings.alerts_repeat_time)
    mode,           \* self.mode,   per instance
    tstamp,         \* self.tstamp, per instance
    flag,           \* self.flag,   per instance
    val_ul,         \* self.val_ul, per instance (bit vector as integer)
    val_oh,         \* self.val_oh, per instance (bit vector as integer)
    status,         \* self.status, per instance
    exc,            \* "none", or the uncaught exception that ended the process
    last,           \* observation of the latest call (inputs, return value)
    hist,           \* history: the flags each instance was fed on its previous call
    coupled,        \* history: the instance's pending edge fell into another's defer window
    owed,           \* history: a rising edge was fed since the instance last fired
    firer,          \* history: the instance that set alert_tstamp last
    settings,       \* the Settings object (irrigation part)
    pumps,          \* the two Pump objects: pumps[0], pumps[1]
    lastIrr,        \* observation of the latest irrigation call
    main,           \* main thread: its position inside man_irrigation / power_on
    p_power,        \* level of each pump's power output pin (GPIO.output)
    obs,            \* observation of the run in progress and of the current tick
    sensor,         \* one Sensor object (sensor.py)
    reading,        \* history: clock ticks since the sensor's latest stored reading
    track,          \* history of the alert instances' fires and edges
    twin,           \* Alert.alert_tstamp of a second, separate process
    other,          \* the same scheduler tick with other readings, side by side
    loop            \* main thread: its position in the main loop (flora.py:520-616)

alertVars == <<now, alert_tstamp, defer_time, repeat_time, mode, tstamp, flag,
               val_ul, val_oh, status, last, hist, coupled, owed, firer>>

irrVars == <<settings, pumps, lastIrr>>

pumpVars == <<main, p_power, obs>>

auxVars == <<sensor, reading, track, twin, other, loop>>

vars == <<alertVars, irrVars, pumpVars, auxVars, exc>>

\* --------------------------------------------------------- Python helpers
\* x or y (alert.py:139,142): the first operand if it is truthy, else the second
PyOr(x, y) == IF x # 0 THEN x ELSE y

Pow2(i) == 2 ^ i

Bit(v, i) == (v \div Pow2(i)) % 2

\* v |= (1 << i)  (alert.py:132,136)
BitSet(v, i) == IF Bit(v, i) = 1 THEN v ELSE v + Pow2(i)

\* a & ~b on non-negative integers (alert.py:139, 207)
RECURSIVE AndNotFrom(_, _, _)
AndNotFrom(a, b, i) ==
    IF i = NSensors THEN 0
    ELSE Bit(a, i) * (1 - Bit(b, i)) * Pow2(i) + AndNotFrom(a, b, i + 1)

AndNot(a, b) == AndNotFrom(a, b, 0)

\* bool as int (True == 1, False == 0)
B2I(b) == IF b THEN 1 ELSE 0

\* Names alert.py can resolve: its imports (lines 36-38), its class, builtins.
AlertNames == {"time", "print_line", "VERBOSITY", "Alert", "True", "False", "None"}

AlertBound(name) == name \in AlertNames

\* ------------------------------------------------------------ class Alert
\* Alert.__init__ (alert.py:70-89)
AlertNew(m) == [mode |-> m, tstamp |-> 0, flag |-> FALSE,
                val_ul |-> 0, val_oh |-> 0, status |-> FALSE]

\* mode test of the immediate branch (alert.py:149, 218)
Immediate_only1(m) == m = 1

Immediate_not34(m) == m # 3 /\ m # 4

Immediate(m) == (m = 1) \/ (m = 2)

\* mode test of the deferred branches (alert.py:153, 167, 222, 236)
Deferred(m) == (m = 3) \/ (m = 4)

\* Alert.repeat_expired (alert.py:91-98)
repeat_expired(t, self_tstamp, self_repeat_time) ==
    (t - self_tstamp) > self_repeat_time

defer_expired_ge(t, ats, self_defer_time) == (t - ats) >= self_defer_time

defer_expired_always(t, ats, self_defer_time) == TRUE

\* Alert.defer_expired (alert.py:100-107)
defer_expired(t, ats, self_defer_time) == (t - ats) > self_defer_time

\* "Alert will not be repeated" test (alert.py:175, 244)
OneShot_never(m) == FALSE

OneShot_both(m) == m >= 3

OneShot(m) == m = 3

\* The working state of one call: w = [mode, tstamp, flag, alert, exc].
\* `if change:` block (alert.py:144-157, 213-226)
OnChange(w, t, ats, dt) ==
    LET w1 == [w EXCEPT !.tstamp = t, !.flag = TRUE]
    IN  IF Immediate(w1.mode) THEN [w1 EXCEPT !.alert = TRUE]
        ELSE IF Deferred(w1.mode) /\ defer_expired(t, ats, dt)
             THEN [w1 EXCEPT !.alert = TRUE]
             ELSE w1

\* mode 2 repeat (alert.py:160-166, 229-235): `alert = true` reads the name
\* `true`, which nothing binds: NameError, raised before tstamp is restarted.
OnRepeat(w, t, rt) ==
    IF (w.mode = 2) /\ (w.tstamp # 0) /\ repeat_expired(t, w.tstamp, rt)
    THEN IF AlertBound("true")
         THEN [w EXCEPT !.alert = TRUE, !.tstamp = t]
         ELSE [w EXCEPT !.exc = "NameError"]
    ELSE w

\* mode 3/4 drain of the latched flag (alert.py:167-177, 236-246)
OnDeferred(w, t, ats, dt) ==
    IF Deferred(w.mode) /\ w.flag
    THEN IF defer_expired(t, ats, dt)
         THEN [w EXCEPT !.tstamp = t, !.alert = TRUE,
                        !.flag = IF OneShot(w.mode) THEN FALSE ELSE @]
         ELSE w
    ELSE w

\* `if (active):` block (alert.py:159-177, 228-246)
OnActive(w, t, ats, dt, rt) ==
    LET w1 == OnRepeat(w, t, rt)
    IN  IF w1.exc # "none" THEN w1 ELSE OnDeferred(w1, t, ats, dt)

OnInactive_keepTstamp(w) == [w EXCEPT !.flag = FALSE]

OnInactive_keepFlag(w) == [w EXCEPT !.tstamp = 0]

OnInactive_flush(w) == [w EXCEPT !.alert = w.flag, !.tstamp = 0, !.flag = FALSE]

\* `else:` block (alert.py:179-183, 248-252)
OnInactive(w) == [w EXCEPT !.tstamp = 0, !.flag = FALSE]

\* The part after the state vectors are built (alert.py:144-188, 213-257).
Decide(w, change, active, t, ats, dt, rt) ==
    LET w1 == IF change # 0 THEN OnChange(w, t, ats, dt) ELSE w
    IN  IF active # 0 THEN OnActive(w1, t, ats, dt, rt) ELSE OnInactive(w1)

\* for i, s in enumerate(sensors): if getattr(sensors[s], attr): v |= (1 << i)
\* (alert.py:130-136); `attr` is the set of positions whose flag is set.
RECURSIVE GenVector(_, _, _)
GenVector(i, attr, v) ==
    IF i = NSensors THEN v
    ELSE GenVector(i + 1, attr, IF i \in attr THEN BitSet(v, i) ELSE v)

Change_wholeVector(new_ul, old_ul, new_oh, old_oh) ==
    IF PyOr(old_ul, old_oh) = 0 THEN PyOr(new_ul, new_oh) ELSE 0

Change_perSensor(new_ul, old_ul, new_oh, old_oh) ==
    AndNot(new_ul + AndNot(new_oh, new_ul), old_ul + AndNot(old_oh, old_ul))

\* change: level 0->1 change in state vector (alert.py:139)
Change(new_ul, old_ul, new_oh, old_oh) ==
    PyOr(AndNot(new_ul, old_ul), AndNot(new_oh, old_oh))

\* Active: level 1 in state vector (alert.py:142)
Active(new_ul, new_oh) == PyOr(new_ul, new_oh)

\* Alert.check_sensors (alert.py:109-188).  ul / oh: positions of the sensors
\* whose attr1 / attr2 flag is set; attr2 = FALSE stands for attr2=None.
\* Result: the instance's fields after the call, the return value `alert`
\* and the exception raised, if any.
check_sensors(self, ul, attr2, oh, t, ats, dt, rt) ==
    LET val_ul_d == self.val_ul
        val_oh_d == self.val_oh
        new_ul == GenVector(0, ul, 0)
        new_oh == IF attr2 THEN GenVector(0, oh, 0) ELSE 0
        change == Change(new_ul, val_ul_d, new_oh, val_oh_d)
        active == Active(new_ul, new_oh)
        w0 == [mode |-> self.mode, tstamp |-> self.tstamp, flag |-> self.flag,
               alert |-> FALSE, exc |-> "none"]
        w == Decide(w0, change, active, t, ats, dt, rt)
    IN  [self   |-> [self EXCEPT !.val_ul = new_ul, !.val_oh = new_oh,
                                 !.tstamp = w.tstamp, !.flag = w.flag],
         alert  |-> w.alert,
         exc    |-> w.exc]

SystemChange_level(st, status_d) == B2I(st)

\* change = self.status & ~status_d (alert.py:207)
SystemChange(st, status_d) == AndNot(B2I(st), B2I(status_d))

\* Alert.check_system (alert.py:190-257)
check_system(self, st, t, ats, dt, rt) ==
    LET status_d == self.status
        change == SystemChange(st, status_d)
        active == B2I(st)
        w0 == [mode |-> self.mode, tstamp |-> self.tstamp, flag |-> self.flag,
               alert |-> FALSE, exc |-> "none"]
        w == Decide(w0, change, active, t, ats, dt, rt)
    IN  [self   |-> [self EXCEPT !.status = st,
                                 !.tstamp = w.tstamp, !.flag = w.flag],
         alert  |-> w.alert,
         exc    |-> w.exc]

\* `if alert: Alert.alert_tstamp = time()` (alert.py:185-186, 254-255); not
\* reached when the call raised.
NewAlertTstamp_deferredOnly(r, t, ats) ==
    IF r.exc = "none" /\ r.alert /\ Deferred(r.self.mode) THEN t ELSE ats

NewAlertTstamp(r, t, ats) == IF r.exc = "none" /\ r.alert THEN t ELSE ats

\* ------------------------------------------------------------- class Pump
PUMP_BUSY_MAN == 1
PUMP_BUSY_AUTO == 2

PumpIdx == 0..1                \* for p in range(2)  (irrigation.py:59, 110, 130)

\* Pump.__init__ (pump.py:75-77)
PumpNew == [busy |-> 0, timestamp |-> 0, status |-> 0]

\* What the GPIO inputs read during one power_on call: tank.empty at the call,
\* then _drvstatus == GPIO.HIGH and tank.empty on each loop iteration.
HwScripts == [empty0 : BOOLEAN,
              drv    : [1..MaxDuration -> BOOLEAN],
              empty  : [1..MaxDuration -> BOOLEAN]]

\* the hold loop of power_on (pump.py:122-129), from iteration i on
RECURSIVE HoldLoop(_, _, _)
HoldLoop(i, on_time, hw) ==
    IF i > on_time THEN 0
    ELSE IF ~hw.drv[i] THEN 2
    ELSE IF hw.empty[i] THEN 1
    ELSE HoldLoop(i + 1, on_time, hw)

\* Pump.power_on (pump.py:104-133): the status it returns and stores
power_on(on_time, hw) == IF hw.empty0 THEN 1 ELSE HoldLoop(1, on_time, hw)

\* ------------------------------------------------------- class Irrigation
\* What the names used by irrigation.py denote where they are used.
\* `from time import time` (irrigation.py:29) binds `time` to the function,
\* which has no attribute `time`; `from settings import *` and
\* `from print_line import *` (irrigation.py:31-32) bind no `time`.
IrrTimeBinding == "function"

\* Names auto_irrigation can resolve: its parameters (irrigation.py:73), its
\* locals and the module's imports.  `pumps` is not among them.
AutoIrrigationNames == {"self", "settings", "sensors", "pump", "now",
                        "nighttime_start", "nighttime_end", "activate", "schedule",
                        "p", "sensor", "duration", "time", "datetime",
                        "print_line", "VERBOSITY", "PUMP_BUSY_MAN", "PUMP_BUSY_AUTO"}

\* datetime.replace(hour=h, minute=m) raises ValueError outside these ranges
ValidTime(hr, mn) == hr \in 0..23 /\ mn \in 0..59

\* datetimes of one day compare as (hour, minute)
MinuteOfDay(hr, mn) == hr * 60 + mn

\* the night-time test (irrigation.py:103)
IsNight(hm, st) ==
    \/ MinuteOfDay(hm[1], hm[2]) >= MinuteOfDay(st.night_begin_hr, st.night_begin_min)
    \/ MinuteOfDay(hm[1], hm[2]) <  MinuteOfDay(st.night_end_hr, st.night_end_min)

ScanSensors_anyDry(p, sensors, i) ==
    \E j \in DOMAIN sensors : sensors[j].pump = p + 1 /\ sensors[j].moist_ul

\* the scan of the sensors of pump p, in dictionary order, from position i
\* (irrigation.py:111-127): the value activate[p] ends with
RECURSIVE ScanSensors(_, _, _)
ScanSensors(p, sensors, i) ==
    IF i > Len(sensors) THEN FALSE
    ELSE LET s == sensors[i]
         IN  IF s.pump # p + 1 THEN ScanSensors(p, sensors, i + 1)
             ELSE IF s.valid = FALSE THEN FALSE
             ELSE IF s.light_il THEN FALSE
             ELSE IF s.moist_oh THEN FALSE
             ELSE IF s.moist_ul THEN TRUE
             ELSE ScanSensors(p, sensors, i + 1)

\* body of the second loop for pump p (irrigation.py:131-146);
\* w = [pumps, schedule, runs, exc, skipped, activate]: runs = the power_on
\* calls made so far
SchedulePump(w, p, activate, st, t, hw) ==
    IF w.exc # "none" \/ ~activate[p] THEN w
    ELSE IF IrrTimeBinding # "module"            \* time.time(): no such attribute
    THEN [w EXCEPT !.exc = "AttributeError"]
    ELSE IF "pumps" \notin AutoIrrigationNames   \* pumps[p]: name not defined
    THEN [w EXCEPT !.exc = "NameError"]
    ELSE IF (t - w.pumps[p].timestamp) < st.irr_rest
    THEN [w EXCEPT !.schedule[p] = TRUE]
    ELSE IF w.pumps[p].busy = 0
    THEN LET duration == IF p = 0 THEN st.irr_duration_auto1
                                   ELSE st.irr_duration_auto2
         IN  [w EXCEPT !.pumps[p] = [busy |-> 0, timestamp |-> t,
                                     status |-> power_on(duration, hw[p])],
                       !.runs = Append(@, <<p, duration>>)]
    ELSE w

\* Irrigation.auto_irrigation (irrigation.py:73-148).  hm = <<hour, minute>> of
\* datetime.now(), t = time.time().  Result: the pumps after the call, the
\* returned list (ret, when returned), the power_on calls, the exception;
\* skipped = the early return of line 106 was taken; activate = the list
\* built by the first loop.
auto_irrigation(st, sensors, pumps0, hm, t, hw) ==
    LET w0 == [pumps |-> pumps0, schedule |-> [p \in PumpIdx |-> FALSE],
               runs |-> <<>>, exc |-> "none", skipped |-> FALSE,
               activate |-> [p \in PumpIdx |-> FALSE]]
    IN  IF ~ValidTime(st.night_begin_hr, st.night_begin_min)
           \/ ~ValidTime(st.night_end_hr, st.night_end_min)
        THEN [w0 EXCEPT !.exc = "ValueError"]
        ELSE IF IsNight(hm, st) THEN [w0 EXCEPT !.skipped = TRUE]
        ELSE LET activate == [p \in PumpIdx |-> ScanSensors(p, sensors, 1)]
                 w1 == SchedulePump([w0 EXCEPT !.activate = activate],
                                    0, activate, st, t, hw)
             IN  SchedulePump(w1, 1, activate, st, t, hw)

ManPump_restamp(w, i, st, hw) ==
    IF w.pumps[i].busy = PUMP_BUSY_MAN
    THEN [w EXCEPT !.pumps[i] = [@ EXCEPT !.busy = 0, !.timestamp = 0,
                                   !.status = power_on(st.irr_duration_man, hw[i])],
                   !.runs = Append(@, <<i, st.irr_duration_man>>)]
    ELSE w

\* body of the loop of man_irrigation for pump i (irrigation.py:60-67)
ManPump(w, i, st, hw) ==
    IF w.pumps[i].busy = PUMP_BUSY_MAN
    THEN [w EXCEPT !.pumps[i] = [@ EXCEPT !.busy = 0,
                                   !.status = power_on(st.irr_duration_man, hw[i])],
                   !.runs = Append(@, <<i, st.irr_duration_man>>)]
    ELSE w

\* Irrigation.man_irrigation (irrigation.py:48-67)
man_irrigation(st, pumps0, hw) ==
    LET w0 == [pumps |-> pumps0, schedule |-> [p \in PumpIdx |-> FALSE],
               runs |-> <<>>, exc |-> "none", skipped |-> FALSE,
               activate |-> [p \in PumpIdx |-> FALSE]]
    IN  ManPump(ManPump(w0, 0, st, hw), 1, st, hw)

\* ------------------------------------------------- the alert state machine
SensorFilters == {"A"}      \* instances driven through check_sensors (flora.py:528-534)
SystemFilters == {"B"}      \* instances driven through check_system  (flora.py:535-537)

Self(f) == [mode |-> mode[f], tstamp |-> tstamp[f], flag |-> flag[f],
            val_ul |-> val_ul[f], val_oh |-> val_oh[f], status |-> status[f]]

NoCall == [op |-> "none", f |-> "none", edge |-> FALSE, active |-> FALSE,
           fresh |-> FALSE, late |-> FALSE, due |-> FALSE, coupled |-> FALSE,
           pending |-> FALSE, alert |-> FALSE, exc |-> "none", ats_kept |-> TRUE,
           restarted |-> FALSE]

\* The monitored bits fed to a call, as a set (independent of the integer
\* vectors the code keeps).
SensorBits(ul, attr2, oh) ==
    {<<"ul", i>> : i \in ul} \cup (IF attr2 THEN {<<"oh", i>> : i \in oh} ELSE {})

SystemBits(st) == IF st THEN {<<"st", 0>>} ELSE {}

\* Store the result r of a call of instance f that was fed `bits`, and record
\* what an observer of the call sees:
\*   edge      some monitored bit is set now and was clear on f's previous call
\*   active    some monitored bit is set now
\*   fresh     a rising edge was fed to f since f last fired (this call included)
\*   late      more than defer_time has passed since the latest alert of any instance
\*   due       f has a running last_change_time and more than repeat_time has
\*             passed since it
\*   coupled   another instance fired last, at time T = alert_tstamp; f saw a
\*             rising edge after that at a time < T + defer_time, has been active
\*             on every call since, and nothing fired since T
\*   pending   f's flag was set when the call began
\*   alert     the call returned True;  exc: the exception it raised instead
\*   ats_kept  the call left Alert.alert_tstamp as it was
\*   restarted the call ended with last_change_time = now
Commit(op, f, bits, r) ==
    LET edge == (bits \ hist[f]) # {}
        active == bits # {}
        fired == r.exc = "none" /\ r.alert
        ats == NewAlertTstamp(r, now, alert_tstamp)
        inwindow == edge /\ firer \notin {f, "none"}
                         /\ now >= alert_tstamp /\ now - alert_tstamp < defer_time
        isCoupled == active /\ (coupled[f] \/ inwindow)
    IN  /\ mode' = mode
        /\ tstamp' = [tstamp EXCEPT ![f] = r.self.tstamp]
        /\ flag' = [flag EXCEPT ![f] = r.self.flag]
        /\ val_ul' = [val_ul EXCEPT ![f] = r.self.val_ul]
        /\ val_oh' = [val_oh EXCEPT ![f] = r.self.val_oh]
        /\ status' = [status EXCEPT ![f] = r.self.status]
        /\ alert_tstamp' = ats
        /\ exc' = r.exc
        /\ last' = [op |-> op, f |-> f, edge |-> edge, active |-> active,
                    fresh |-> (owed[f] \/ edge),
                    late |-> (now - alert_tstamp > defer_time),
                    due |-> (tstamp[f] # 0 /\ now - tstamp[f] > repeat_time),
                    coupled |-> isCoupled,
                    pending |-> flag[f],
                    alert |-> fired, exc |-> r.exc,
                    ats_kept |-> (ats = alert_tstamp),
                    restarted |-> (r.self.tstamp = now)]
        /\ hist' = [hist EXCEPT ![f] = bits]
        /\ owed' = [owed EXCEPT ![f] = (@ \/ edge) /\ ~fired]
        /\ coupled' = [g \in Filters |->
                          IF fired THEN FALSE
                          ELSE IF g = f THEN isCoupled ELSE coupled[g]]
        /\ firer' = IF fired THEN f ELSE firer
        /\ UNCHANGED <<now, defer_time, repeat_time>>

\* main loop: alert = <instance>.check_sensors(sensors, attr1)  (flora.py:528, 534)
CheckSensors(f) ==
    /\ exc = "none"
    /\ \E ul \in SUBSET SensorIdx :
          Commit("check_sensors", f, SensorBits(ul, FALSE, {}),
                 check_sensors(Self(f), ul, FALSE, {}, now, alert_tstamp,
                               defer_time, repeat_time))

\* main loop: alert |= <instance>.check_system(status)
CheckSystem(f) ==
    /\ exc = "none"
    /\ \E st \in BOOLEAN :
          Commit("check_system", f, SystemBits(st),
                 check_system(Self(f), st, now, alert_tstamp,
                              defer_time, repeat_time))

\* the clock moves on between calls (sleep, flora.py:607-612)
Advance ==
    /\ exc = "none"
    /\ now < MaxTime
    /\ now' = now + 1
    /\ UNCHANGED <<alert_tstamp, defer_time, repeat_time, mode, tstamp, flag,
                   val_ul, val_oh, status, exc, last, hist, coupled, owed, firer>>

\* ------------------------------------------- the irrigation state machine
\* the keys of the sensors dictionary handed to auto_irrigation, in
\* iteration order
SensorNames == <<"s1", "s2">>

\* the fields of one Sensor that auto_irrigation reads (sensor.py:87, 118-123,
\* 203); moist_ul and moist_oh (sensor.py:194, 197) are not both set
SensorRec == {s \in [pump : {1, 2}, valid : BOOLEAN, light_il : BOOLEAN,
                     moist_oh : BOOLEAN, moist_ul : BOOLEAN] :
                 ~(s.moist_oh /\ s.moist_ul)}

\* the sensor states handed to auto_irrigation: in range or moist_ul, and
\* at most one of invalid, light_il, moist_oh
SensorCases == {s \in SensorRec :
                   (IF s.valid THEN 0 ELSE 1) + (IF s.light_il THEN 1 ELSE 0)
                       + (IF s.moist_oh THEN 1 ELSE 0) <= 1}

\* the sensors dictionary, as the sequence of its values in iteration order
SensorDicts == [DOMAIN SensorNames -> SensorCases]

\* night_begin / night_end as <<begin_hr, begin_min, end_hr, end_min>>:
\* the defaults "24:00" / "00:00" (settings.py:55-56), a window that wraps
\* past midnight, and one that does not
NightConfigs == {<<24, 0, 0, 0>>, <<22, 0, 6, 0>>, <<1, 0, 5, 30>>}

\* <<hour, minute>> of datetime.now() at a call
ClockTimes == {<<3, 0>>, <<12, 0>>, <<23, 30>>}

\* Settings.__init__, the irrigation part (settings.py:74-95)
SettingsNew(night) ==
    [irr_scheduled |-> [p \in PumpIdx |-> FALSE],
     irr_duration_auto1 |-> MaxDuration,
     irr_duration_auto2 |-> MaxDuration - 1,
     irr_duration_man |-> MaxDuration,
     irr_rest |-> MaxRest,
     night_begin_hr |-> night[1], night_begin_min |-> night[2],
     night_end_hr |-> night[3], night_end_min |-> night[4]]

GoodRun == [empty0 |-> FALSE, drv |-> [i \in 1..MaxDuration |-> TRUE],
            empty |-> [i \in 1..MaxDuration |-> FALSE]]

\* GPIO readings during the runs man_irrigation starts: the scheduler is
\* observed on healthy hardware (tank filled, driver status HIGH)
ManScripts == {GoodRun}

NoIrrCall == [op |-> "none", day |-> FALSE,
              elig |-> [p \in PumpIdx |-> FALSE],
              rested |-> [p \in PumpIdx |-> FALSE],
              idle |-> [p \in PumpIdx |-> FALSE],
              returned |-> FALSE, schedule |-> [p \in PumpIdx |-> FALSE],
              exc |-> "none", runs |-> <<>>,
              busy_kept |-> [p \in PumpIdx |-> TRUE],
              ts_kept |-> [p \in PumpIdx |-> TRUE],
              stamped |-> [p \in PumpIdx |-> FALSE],
              skipped |-> FALSE, blocked |-> [p \in PumpIdx |-> FALSE],
              activate |-> [p \in PumpIdx |-> FALSE], sched_kept |-> TRUE,
              decided |-> [p \in PumpIdx |-> FALSE],
              requested |-> [p \in PumpIdx |-> FALSE]]

\* The night window [night_begin, night_end) as the settings describe it: it
\* wraps past midnight when begin > end.
InWindow(hm, st) ==
    LET t == MinuteOfDay(hm[1], hm[2])
        b == MinuteOfDay(st.night_begin_hr, st.night_begin_min)
        e == MinuteOfDay(st.night_end_hr, st.night_end_min)
    IN  IF b > e THEN (t >= b \/ t < e) ELSE (b <= t /\ t < e)

\* Pump p + 1 is eligible: one of its sensors reports moist_ul and none of
\* them is invalid, light_il or moist_oh.
Eligible(p, sensors) ==
    /\ \E i \in DOMAIN sensors : sensors[i].pump = p + 1 /\ sensors[i].moist_ul
    /\ \A i \in DOMAIN sensors : sensors[i].pump = p + 1 =>
           (sensors[i].valid /\ ~sensors[i].light_il /\ ~sensors[i].moist_oh)

\* Some sensor assigned to pump p + 1 is invalid, light_il or moist_oh.
Blocked(p, sensors) ==
    \E i \in DOMAIN sensors : sensors[i].pump = p + 1 /\
        (~sensors[i].valid \/ sensors[i].light_il \/ sensors[i].moist_oh)

\* The position, in dictionary order, of the first sensor assigned to pump
\* p + 1 that is invalid, light_il, moist_oh or moist_ul (0: there is none).
FirstDeciding(p, sensors) ==
    LET D == {i \in DOMAIN sensors :
                 /\ sensors[i].pump = p + 1
                 /\ (~sensors[i].valid \/ sensors[i].light_il
                        \/ sensors[i].moist_oh \/ sensors[i].moist_ul)}
    IN  IF D = {} THEN 0 ELSE CHOOSE i \in D : \A j \in D : i <= j

\* That first sensor exists and is valid, not light_il, not moist_oh, moist_ul.
DecidedEligible(p, sensors) ==
    LET i == FirstDeciding(p, sensors)
    IN  /\ i # 0
        /\ sensors[i].valid /\ ~sensors[i].light_il
        /\ ~sensors[i].moist_oh /\ sensors[i].moist_ul

\* settings.irr_scheduled = irrigation.auto_irrigation(...) (flora.py:526):
\* the assignment happens when the call returns
ScheduledAfter(op, r) ==
    IF op = "auto_irrigation" /\ r.exc = "none"
    THEN [settings EXCEPT !.irr_scheduled = r.schedule]
    ELSE settings

\* Store the result r of an irrigation call and record what an observer sees:
\*   day        the call was made outside the night window
\*   elig[p]    pump p was eligible;  rested[p]: (now - timestamp) >= irr_rest
\*   idle[p]    pump p's busy was 0 when the call began
\*   returned, schedule: the call returned, and the list it returned
\*   runs       the power_on calls made, as <<pump, duration>>
\*   busy_kept, ts_kept: the call left the pump's busy / timestamp as it was
\*   stamped[p] the call ended with the pump's timestamp = now
\*   skipped    the call took the night-time return
\*   blocked[p] some sensor of pump p is invalid, light_il or moist_oh
\*   activate   the list `activate` the call built (irrigation.py:109-126)
\*   sched_kept settings.irr_scheduled is after the tick what it was before
\*   decided[p] the first deciding sensor of pump p makes the pump eligible
\*   requested[p]  pump p's busy was PUMP_BUSY_MAN when the call began
CommitIrr(op, sensors, hm, r) ==
    /\ pumps' = r.pumps
    /\ exc' = r.exc
    /\ settings' = ScheduledAfter(op, r)
    /\ lastIrr' = [op |-> op, day |-> ~InWindow(hm, settings),
                   elig |-> [p \in PumpIdx |-> Eligible(p, sensors)],
                   rested |-> [p \in PumpIdx |->
                                  now - pumps[p].timestamp >= settings.irr_rest],
                   idle |-> [p \in PumpIdx |-> pumps[p].busy = 0],
                   returned |-> (r.exc = "none"), schedule |-> r.schedule,
                   exc |-> r.exc, runs |-> r.runs,
                   busy_kept |-> [p \in PumpIdx |-> r.pumps[p].busy = pumps[p].busy],
                   ts_kept |-> [p \in PumpIdx |->
                                   r.pumps[p].timestamp = pumps[p].timestamp],
                   stamped |-> [p \in PumpIdx |-> r.pumps[p].timestamp = now],
                   skipped |-> r.skipped,
                   blocked |-> [p \in PumpIdx |-> Blocked(p, sensors)],
                   activate |-> r.activate,
                   sched_kept |-> (ScheduledAfter(op, r).irr_scheduled
                                       = settings.irr_scheduled),
                   decided |-> [p \in PumpIdx |-> DecidedEligible(p, sensors)],
                   requested |-> [p \in PumpIdx |-> pumps[p].busy = PUMP_BUSY_MAN]]
    /\ UNCHANGED alertVars

\* main loop: settings.irr_scheduled = irrigation.auto_irrigation(settings,
\* sensors, pump) (flora.py:525-526).  The GPIO readings matter only to a call
\* that reaches power_on, so they are drawn only then.
AutoIrrigation ==
    /\ exc = "none"
    /\ \E sensors \in SensorDicts, hm \in ClockTimes :
          LET dry == auto_irrigation(settings, sensors, pumps, hm, now,
                                     [p \in PumpIdx |-> GoodRun])
          IN  IF dry.runs = <<>>
              THEN CommitIrr("auto_irrigation", sensors, hm, dry)
              ELSE \E hw \in [PumpIdx -> HwScripts] :
                      CommitIrr("auto_irrigation", sensors, hm,
                                auto_irrigation(settings, sensors, pumps, hm, now, hw))

\* main loop: irrigation.man_irrigation(settings, mqtt_client, pump) (flora.py:522).
\* GPIO readings are drawn for the pumps that are run.
ManIrrigation ==
    /\ exc = "none"
    /\ \E h0 \in (IF pumps[0].busy = PUMP_BUSY_MAN THEN ManScripts ELSE {GoodRun}),
          h1 \in (IF pumps[1].busy = PUMP_BUSY_MAN THEN ManScripts ELSE {GoodRun}) :
          CommitIrr("man_irrigation", <<>>, <<12, 0>>,
                    man_irrigation(settings, pumps, [p \in PumpIdx |->
                                                       IF p = 0 THEN h0 ELSE h1]))

CmdRejected_never(busy) == FALSE

\* `if (pump.busy): ... return` (flora.py:236-240)
CmdRejected(busy) == busy # 0

\* MQTT callback mqtt_man_irr_cmd for pump p (flora.py:224-243), a command
\* that is accepted
ManIrrCmd(p) ==
    /\ exc = "none"
    /\ ~CmdRejected(pumps[p].busy)
    /\ pumps' = [pumps EXCEPT ![p].busy = PUMP_BUSY_MAN]
    /\ UNCHANGED <<alertVars, settings, lastIrr, exc>>

\* the clock moves on between irrigation calls
AdvanceIrr ==
    /\ exc = "none"
    /\ now < Epoch + MaxRest
    /\ now' = now + 1
    /\ UNCHANGED <<alert_tstamp, defer_time, repeat_time, mode, tstamp, flag,
                   val_ul, val_oh, status, exc, last, hist, coupled, owed, firer,
                   irrVars>>

\* ------------------------------------- man_irrigation and power_on, by step
GPIO_LOW == 0
GPIO_HIGH == 1

\* the main thread between two ticks
MainIdle == [pc |-> "idle", i |-> 0, k |-> 0, on_time |-> 0]

\* What an observer of the pump has seen:
\*   ev       the step taken last (by either thread)
\*   p, dur   the pump of the latest power_on call, and settings.irr_duration_man
\*            when man_irrigation found that pump requested
\*   empty0   the tank read empty when power_on was invoked
\*   high     the power output was set HIGH during the call
\*   settle   the 0.5 s settle wait was made
\*   reads    the <<driver status is HIGH, tank is empty>> levels at the input
\*            pins on each loop iteration of the call
\*   sleeps   the one-second waits made;  ret, done: the call's return value
\*   served   power_on calls made for each pump on the current tick
\*   seen     each pump's busy when man_irrigation tested it on the current
\*            tick (-1: not tested yet)
\*   cmd      the latest manual command received: its pump, the pump's busy
\*            when it arrived, and whether it was accepted (man_irr_stat = 1
\*            published, flora.py:242)
\*   acc      per pump, the commands accepted since its latest manual run
\*            ended (counted up to 2)
NoObs == [ev |-> "none", p |-> 0, dur |-> 0, empty0 |-> FALSE, high |-> FALSE,
          settle |-> FALSE, reads |-> <<>>, sleeps |-> 0, ret |-> 0,
          done |-> FALSE, served |-> [p \in PumpIdx |-> 0],
          seen |-> [p \in PumpIdx |-> -1],
          cmd |-> [p |-> 0, before |-> 0, taken |-> FALSE],
          acc |-> [p \in PumpIdx |-> 0]]

\* Pump.__init__ drives the output LOW (pump.py:72-73); no tick has begun
InitOutputs ==
    /\ main = MainIdle
    /\ p_power = [p \in PumpIdx |-> GPIO_LOW]
    /\ obs = NoObs

\* main loop: irrigation.man_irrigation(...) is entered (flora.py:522)
ManBegin ==
    /\ exc = "none"
    /\ main.pc = "idle"
    /\ main' = [MainIdle EXCEPT !.pc = "man_test"]
    /\ obs' = [obs EXCEPT !.ev = "begin",
                          !.served = [p \in PumpIdx |-> 0],
                          !.seen = [p \in PumpIdx |-> -1]]
    /\ UNCHANGED <<alertVars, irrVars, p_power, exc>>

ManDuration_auto(st) == st.irr_duration_auto1

\* the argument of power_on in man_irrigation (irrigation.py:63)
ManDuration(st) == st.irr_duration_man

\* for i in range(2): if (pumps[i].busy == PUMP_BUSY_MAN): ...
\* pumps[i].power_on(settings.irr_duration_man) is called (irrigation.py:59-63)
ManTest ==
    /\ exc = "none"
    /\ main.pc = "man_test"
    /\ IF main.i \notin PumpIdx
       THEN /\ main' = MainIdle
            /\ obs' = [obs EXCEPT !.ev = "return"]
       ELSE IF pumps[main.i].busy = PUMP_BUSY_MAN
       THEN /\ main' = [main EXCEPT !.pc = "po_call", !.k = 0,
                                    !.on_time = ManDuration(settings)]
            /\ obs' = [obs EXCEPT !.ev = "call", !.p = main.i,
                                  !.dur = settings.irr_duration_man,
                                  !.empty0 = FALSE, !.high = FALSE,
                                  !.settle = FALSE, !.reads = <<>>,
                                  !.sleeps = 0, !.ret = 0, !.done = FALSE,
                                  !.served[main.i] = @ + 1,
                                  !.seen[main.i] = pumps[main.i].busy]
       ELSE /\ main' = [main EXCEPT !.i = @ + 1]
            /\ obs' = [obs EXCEPT !.ev = "skip",
                                  !.seen[main.i] = pumps[main.i].busy]
    /\ UNCHANGED <<alertVars, irrVars, p_power, exc>>

AfterTankEmpty_fallthrough == "po_high"

\* where power_on goes when the tank reads empty at the call (pump.py:119:
\* return to the caller)
AfterTankEmpty == "man_done"

\* power_on: self.status = 0; if self.tank.empty: self.status = 1; return
\* (pump.py:116-119)
PoCall ==
    /\ exc = "none"
    /\ main.pc = "po_call"
    /\ \E empty \in BOOLEAN :
          /\ pumps' = [pumps EXCEPT ![main.i].status = IF empty THEN 1 ELSE 0]
          /\ main' = [main EXCEPT !.pc = IF empty THEN AfterTankEmpty ELSE "po_high"]
          /\ obs' = [obs EXCEPT !.ev = "po_call", !.empty0 = empty,
                                !.ret = IF empty THEN 1 ELSE 0, !.done = empty]
    /\ UNCHANGED <<alertVars, settings, lastIrr, p_power, exc>>

\* power_on: GPIO.output(self.p_power, GPIO.HIGH); sleep(0.5) (pump.py:120-121)
PoHigh ==
    /\ exc = "none"
    /\ main.pc = "po_high"
    /\ p_power' = [p_power EXCEPT ![main.i] = GPIO_HIGH]
    /\ main' = [main EXCEPT !.pc = "po_loop", !.k = 0]
    /\ obs' = [obs EXCEPT !.ev = "po_high", !.high = TRUE, !.settle = TRUE]
    /\ UNCHANGED <<alertVars, irrVars, exc>>

AfterDrvFault_continue == "po_loop"

AfterDrvFault_return == "man_done"

\* where the hold loop goes when the driver status does not read HIGH
\* (pump.py:123-125: break, then line 131)
AfterDrvFault == "po_low"

AfterTankDry_continue == "po_loop"

\* where the hold loop goes when the tank reads empty on an iteration
\* (pump.py:126-128: break, then line 131)
AfterTankDry == "po_low"

LoopOver_oneMore(k, on_time) == k > on_time

\* `for _ in range(on_time)` has made k passes and makes no further one
\* (pump.py:122)
LoopOver(k, on_time) == k >= on_time

\* power_on: one pass of `for _ in range(on_time)` (pump.py:122-129); drv /
\* empty are the levels at the status pin and at the tank's empty pin
PoLoop ==
    /\ exc = "none"
    /\ main.pc = "po_loop"
    /\ IF LoopOver(main.k, main.on_time)
       THEN /\ main' = [main EXCEPT !.pc = "po_low"]
            /\ obs' = [obs EXCEPT !.ev = "po_end"]
            /\ pumps' = pumps
       ELSE \E drv \in BOOLEAN, empty \in BOOLEAN :
               /\ pumps' = [pumps EXCEPT ![main.i].status =
                               IF ~drv THEN 2 ELSE IF empty THEN 1 ELSE @]
               /\ main' = IF ~drv THEN [main EXCEPT !.pc = AfterDrvFault]
                          ELSE IF empty THEN [main EXCEPT !.pc = AfterTankDry]
                          ELSE [main EXCEPT !.k = @ + 1]
               /\ obs' = [obs EXCEPT !.ev = "po_loop",
                                     !.reads = Append(@, <<drv, empty>>),
                                     !.sleeps = IF drv /\ ~empty THEN @ + 1 ELSE @]
    /\ UNCHANGED <<alertVars, settings, lastIrr, p_power, exc>>

PoLow_clearsBusy ==
    /\ exc = "none"
    /\ main.pc = "po_low"
    /\ p_power' = [p_power EXCEPT ![main.i] = GPIO_LOW]
    /\ pumps' = [pumps EXCEPT ![main.i].busy = 0]
    /\ main' = [main EXCEPT !.pc = "man_done"]
    /\ obs' = [obs EXCEPT !.ev = "po_low", !.ret = pumps[main.i].status,
                          !.done = TRUE]
    /\ UNCHANGED <<alertVars, settings, lastIrr, exc>>

\* power_on: GPIO.output(self.p_power, GPIO.LOW); return self.status
\* (pump.py:131-133)
PoLow ==
    /\ exc = "none"
    /\ main.pc = "po_low"
    /\ p_power' = [p_power EXCEPT ![main.i] = GPIO_LOW]
    /\ main' = [main EXCEPT !.pc = "man_done"]
    /\ obs' = [obs EXCEPT !.ev = "po_low", !.ret = pumps[main.i].status,
                          !.done = TRUE]
    /\ UNCHANGED <<alertVars, irrVars, exc>>

\* man_irrigation after power_on returned: pumps[i].busy = 0
\* (irrigation.py:64-67)
ManDone ==
    /\ exc = "none"
    /\ main.pc = "man_done"
    /\ pumps' = [pumps EXCEPT ![main.i].busy = 0]
    /\ main' = [main EXCEPT !.pc = "man_test", !.i = @ + 1]
    /\ obs' = [obs EXCEPT !.ev = "man_done", !.acc[main.i] = 0]
    /\ UNCHANGED <<alertVars, settings, lastIrr, p_power, exc>>

\* MQTT callback mqtt_man_irr_duration_ctrl (flora.py:246-266)
ManIrrDurationCtrl(d) ==
    /\ exc = "none"
    /\ settings' = [settings EXCEPT !.irr_duration_man = d]
    /\ obs' = [obs EXCEPT !.ev = "duration"]
    /\ UNCHANGED <<alertVars, pumps, lastIrr, main, p_power, exc>>

\* the callback mqtt_man_irr_cmd, run by the MQTT thread (flora.py:462) while
\* the main thread is anywhere
ManIrrCmdAsync(p) ==
    /\ ManIrrCmd(p)
    /\ obs' = [obs EXCEPT !.ev = "cmd",
                          !.cmd = [p |-> p, before |-> pumps[p].busy, taken |-> TRUE],
                          !.acc[p] = IF @ < 2 THEN @ + 1 ELSE @]
    /\ UNCHANGED <<main, p_power>>

\* the same callback when it finds the pump busy: "ignoring request", return
\* (flora.py:236-240)
ManIrrCmdIgnored(p) ==
    /\ exc = "none"
    /\ CmdRejected(pumps[p].busy)
    /\ obs' = [obs EXCEPT !.ev = "cmd",
                          !.cmd = [p |-> p, before |-> pumps[p].busy, taken |-> FALSE]]
    /\ UNCHANGED <<alertVars, irrVars, main, p_power, exc>>

\* ------------------------------------------------------------ class Sensor
SensorTimeouts == 1..MaxTout

\* The numbers of a message are held in tenths (21.5 is 215), so that
\* float() and int() differ: float(x) keeps the number, int(x) drops the
\* fraction (flora.py:335, 340-345).
ToFloat(x10) == x10
ToInt(x10) == x10 \div 10

\* moisture of a message, in tenths: 0, 0.4, 3, 6 and 10, on both sides of the
\* threshold 5 of the plausibility test (flora.py:336)
MoistValues == {0, 4, 30, 60, 100}

\* the other four numbers of a message, in tenths: all in range, all out of
\* range
OtherValues ==
    {[temperature |-> 215, conductivity |-> 50, light |-> 30, battery |-> 900],
     [temperature |-> 55, conductivity |-> 95, light |-> 100, battery |-> 30]}

\* the decoded JSON payloads (flora.py:329)
Messages ==
    {[temperature |-> o.temperature, conductivity |-> o.conductivity,
      moisture |-> m, light |-> o.light, battery |-> o.battery] :
        o \in OtherValues, m \in MoistValues}

\* Sensor.batt_min (flora.py:413, settings.py:64) and the plant data handed
\* to init_plant (sensor.py:126-160, flora.py:437-450)
Plant == [batt_min |-> 5, temp_min |-> 10, temp_max |-> 30,
          cond_min |-> 2, cond_max |-> 8,
          moist_min |-> 5, moist_lo |-> 8, moist_hi |-> 12, moist_max |-> 15,
          light_min |-> 2, light_irr |-> 5, light_max |-> 8]

\* the comparison results of Sensor.__init__ (sensor.py:112-124)
NoFlags == [batt_ul |-> FALSE, temp_ul |-> FALSE, temp_oh |-> FALSE,
            cond_ul |-> FALSE, cond_oh |-> FALSE, moist_ul |-> FALSE,
            moist_ll |-> FALSE, moist_hl |-> FALSE, moist_oh |-> FALSE,
            light_ul |-> FALSE, light_il |-> FALSE, light_oh |-> FALSE]

\* Sensor.__init__ (sensor.py:76-124): no reading yet; temp is held in tenths
SensorNew(tout) == [tstamp |-> 0, tout |-> tout, temp |-> 0, cond |-> 0,
                    moist |-> 0, light |-> 0, batt |-> 0, flags |-> NoFlags]

\* Sensor.update_sensor (sensor.py:170-200), called at time t
update_sensor(self, temp, cond, moist, light, batt, t) ==
    [self EXCEPT
        !.temp = temp, !.cond = cond, !.moist = moist, !.light = light,
        !.batt = batt, !.tstamp = t,
        !.flags = [batt_ul |-> batt < Plant.batt_min,
                   temp_ul |-> temp < 10 * Plant.temp_min,
                   temp_oh |-> temp > 10 * Plant.temp_max,
                   cond_ul |-> cond < Plant.cond_min,
                   cond_oh |-> cond > Plant.cond_max,
                   moist_ul |-> moist < Plant.moist_min,
                   moist_ll |-> moist < Plant.moist_lo /\ moist >= Plant.moist_min,
                   moist_hl |-> moist > Plant.moist_hi /\ moist <= Plant.moist_max,
                   moist_oh |-> moist > Plant.moist_max,
                   light_ul |-> light < Plant.light_min,
                   light_il |-> light > Plant.light_irr,
                   light_oh |-> light > Plant.light_max]]

valid_le(self, t) ==
    IF self.tstamp = 0 THEN FALSE ELSE (t - self.tstamp) <= self.tout

\* Sensor.valid (sensor.py:202-213), read at time t
valid(self, t) ==
    IF self.tstamp = 0 THEN FALSE ELSE (t - self.tstamp) < self.tout

Discarded_anyZero(self, moisture) == ToFloat(moisture) = 0

\* `if float(message['moisture']) == 0 and sensors[sensor].moist > 5: return`
\* (flora.py:335-338)
Discarded(self, moisture) == ToFloat(moisture) = 0 /\ self.moist > 5

\* What an observer of the sensor has seen:
\*   age     clock ticks since the latest message that was stored (-1: none yet)
\*   valid   what Sensor.valid returns now
\*   ev      the step taken last: a message arrived, or the clock moved on
\*   msg     the latest message;  before: the sensor as it was when it arrived
NoReading == [age |-> -1, valid |-> FALSE, ev |-> "none",
              msg |-> [temperature |-> 0, conductivity |-> 0, moisture |-> 0,
                       light |-> 0, battery |-> 0],
              before |-> SensorNew(0)]

\* MQTT callback mqtt_on_message (flora.py:315-346)
MqttOnMessage ==
    /\ exc = "none"
    /\ \E message \in Messages :
          IF Discarded(sensor, message.moisture)
          THEN /\ sensor' = sensor
               /\ reading' = [reading EXCEPT !.ev = "msg", !.msg = message,
                                             !.before = sensor]
          ELSE /\ sensor' = update_sensor(sensor,
                                          ToFloat(message.temperature),
                                          ToInt(message.conductivity),
                                          ToInt(message.moisture),
                                          ToInt(message.light),
                                          ToInt(message.battery), now)
               /\ reading' = [age |-> 0, valid |-> valid(sensor', now),
                              ev |-> "msg", msg |-> message, before |-> sensor]
    /\ UNCHANGED <<alertVars, irrVars, pumpVars, track, twin, other, loop, exc>>

\* the clock moves on
AdvanceSensor ==
    /\ exc = "none"
    /\ now < MaxTime
    /\ now' = now + 1
    /\ reading' = [reading EXCEPT
                       !.age = IF @ < 0 THEN @ ELSE @ + 1,
                       !.valid = valid(sensor, now'),
                       !.ev = "tick"]
    /\ UNCHANGED <<alert_tstamp, defer_time, repeat_time, mode, tstamp, flag,
                   val_ul, val_oh, status, last, hist, coupled, owed, firer>>
    /\ UNCHANGED <<irrVars, pumpVars, sensor, track, twin, other, loop, exc>>

\* ------------------------------------------------------- alert histories
\* What an observer of all calls has seen.  Kept over time:
\*   fired_at  the time of the latest call of any instance that returned True
\*             (0: none yet)
\*   myfire    per instance, the time of its own latest True return (0: none)
\*   seen      per instance, a rising edge was fed to it before
\* About the latest call, of instance f:
\*   spaced    more than defer_time had passed since fired_at
\*   first     the call fed f its first rising edge ever
\*   again     f had returned True before
\*   waited    ... and more than repeat_time had passed since f's latest True
\*   swap      some sensor violates a flag now and violated none on f's previous
\*             call, while another sensor that violated one then violates none now
\*   sensedge  some sensor violates a flag now and violated none on f's
\*             previous call
\*   changed   the call computed change != 0 (alert.py:139, 207)
\*   back      the call moved Alert.alert_tstamp backwards
NoTrack == [fired_at |-> 0,
            myfire |-> [f \in Filters |-> 0],
            seen |-> [f \in Filters |-> FALSE],
            spaced |-> FALSE, first |-> FALSE, again |-> FALSE,
            waited |-> FALSE, swap |-> FALSE, sensedge |-> FALSE,
            changed |-> FALSE, back |-> FALSE]

\* the sensors named by a set of monitored bits
SensorsOf(bits) == {b[2] : b \in bits}

Track(f, bits, r, change) ==
    LET edge == (bits \ hist[f]) # {}
        fired == r.exc = "none" /\ r.alert
        before == SensorsOf(hist[f])
        current == SensorsOf(bits)
    IN  track' = [fired_at |-> IF fired THEN now ELSE track.fired_at,
                  myfire |-> [track.myfire EXCEPT ![f] = IF fired THEN now ELSE @],
                  seen |-> [track.seen EXCEPT ![f] = @ \/ edge],
                  spaced |-> (now - track.fired_at > defer_time),
                  first |-> (edge /\ ~track.seen[f]),
                  again |-> (track.myfire[f] # 0),
                  waited |-> (track.myfire[f] # 0
                              /\ now - track.myfire[f] > repeat_time),
                  swap |-> ((current \ before) # {} /\ (before \ current) # {}),
                  sensedge |-> ((current \ before) # {}),
                  changed |-> (change # 0),
                  back |-> (alert_tstamp' < alert_tstamp)]

\* the attr1 / attr2 flags of the sensors: a value is below its lower limit
\* or above its upper limit, never both (sensor.py:188-199)
FlagCases == {c \in (SUBSET SensorIdx) \X (SUBSET SensorIdx) : c[1] \cap c[2] = {}}

\* one sensor in the dictionary, one flag: set or clear
OneFlagCases == {<<{}, {}>>, <<{0}, {}>>}

\* main loop: <instance>.check_sensors(sensors, attr1)         (flora.py:528, 534)
\*            <instance>.check_sensors(sensors, attr1, attr2)  (flora.py:529-533)
\* with the sensors' flags drawn from `cases`
CheckSensorsTracked(f, attr2, cases) ==
    /\ exc = "none"
    /\ \E c \in cases :
          LET r == check_sensors(Self(f), c[1], attr2, c[2], now, alert_tstamp,
                                 defer_time, repeat_time)
              change == Change(GenVector(0, c[1], 0), val_ul[f],
                               IF attr2 THEN GenVector(0, c[2], 0) ELSE 0, val_oh[f])
          IN  /\ Commit("check_sensors", f, SensorBits(c[1], attr2, c[2]), r)
              /\ Track(f, SensorBits(c[1], attr2, c[2]), r, change)
    /\ UNCHANGED <<irrVars, pumpVars, sensor, reading, twin, other, loop>>

\* main loop: <instance>.check_system(status)  (flora.py:535-537)
CheckSystemTracked(f) ==
    /\ exc = "none"
    /\ \E st \in BOOLEAN :
          LET r == check_system(Self(f), st, now, alert_tstamp,
                                defer_time, repeat_time)
              change == SystemChange(st, status[f])
          IN  /\ Commit("check_system", f, SystemBits(st), r)
              /\ Track(f, SystemBits(st), r, change)
    /\ UNCHANGED <<irrVars, pumpVars, sensor, reading, twin, other, loop>>

\* A second process that holds one Alert instance, driven through
\* check_system: the instance, that process's Alert.alert_tstamp, and the
\* outcome of the latest call (returned True; exception raised).
NoTwin == [self |-> AlertNew(0), alert_tstamp |-> 0, alert |-> FALSE, exc |-> "none"]

\* One tick of both processes at the same time: instance f, of the first
\* process, is handed one sensor whose flag is `st` (check_sensors(sensors,
\* attr1), flora.py:528, 534); the instance of the second process is handed
\* `st` itself (check_system(status), flora.py:535-537).
PairCheck(f) ==
    /\ exc = "none"
    /\ \E st \in BOOLEAN :
          LET ul == IF st THEN {0} ELSE {}
              r1 == check_sensors(Self(f), ul, FALSE, {}, now, alert_tstamp,
                                  defer_time, repeat_time)
              r2 == check_system(twin.self, st, now, twin.alert_tstamp,
                                 defer_time, repeat_time)
          IN  /\ Commit("check_sensors", f, SensorBits(ul, FALSE, {}), r1)
              /\ twin' = [self |-> r2.self,
                          alert_tstamp |-> NewAlertTstamp(r2, now, twin.alert_tstamp),
                          alert |-> (r2.exc = "none" /\ r2.alert),
                          exc |-> r2.exc]
    /\ UNCHANGED <<irrVars, pumpVars, sensor, reading, track, other, loop>>

\* ------------------------------------------- two scheduler ticks compared
\* What auto_irrigation decides for pump p: the pump is marked for
\* activation, power_on is called for it, the call returns, and the flag it
\* returns for the pump.
Decision(r, p) ==
    [eligible |-> r.activate[p],
     driven |-> (\E k \in DOMAIN r.runs : r.runs[k][1] = p),
     returned |-> (r.exc = "none"),
     scheduled |-> (r.exc = "none" /\ r.schedule[p])]

\* p: the pump looked at (-1: no tick yet); first, second: the decisions for
\* p of the tick that is made and of the same tick with other readings of
\* the sensors that are not assigned to p
NoOther == [p |-> -1,
            first |-> [eligible |-> FALSE, driven |-> FALSE, returned |-> FALSE,
                       scheduled |-> FALSE],
            second |-> [eligible |-> FALSE, driven |-> FALSE, returned |-> FALSE,
                        scheduled |-> FALSE]]

\* two sensor dictionaries that agree on every sensor assigned to pump p + 1
SameFor(p, s1, s2) ==
    \A i \in DOMAIN s1 :
        (s1[i].pump = p + 1 \/ s2[i].pump = p + 1) => s1[i] = s2[i]

\* the dictionaries compared: one sensor at each pump
TwiceDicts == {s \in SensorDicts : s[1].pump = 1 /\ s[2].pump = 2}

\* <<hour, minute>> of datetime.now() at the compared calls: day and night
TwiceTimes == {<<12, 0>>, <<23, 30>>}

\* settings.irr_scheduled = irrigation.auto_irrigation(settings, sensors, pump)
\* (flora.py:525-526) on healthy hardware, and beside it the same call from
\* the same state with sensors that differ only where they are not pump p's
AutoIrrigationTwice(p) ==
    /\ exc = "none"
    /\ \E s1 \in TwiceDicts, i \in DOMAIN SensorNames, c \in SensorCases,
          hm \in TwiceTimes :
          /\ SameFor(p, s1, [s1 EXCEPT ![i] = c])
          /\ LET s2 == [s1 EXCEPT ![i] = c]
                 hw == [q \in PumpIdx |-> GoodRun]
                 r1 == auto_irrigation(settings, s1, pumps, hm, now, hw)
                 r2 == auto_irrigation(settings, s2, pumps, hm, now, hw)
             IN  /\ CommitIrr("auto_irrigation", s1, hm, r1)
                 /\ other' = [p |-> p, first |-> Decision(r1, p),
                              second |-> Decision(r2, p)]
    /\ UNCHANGED <<pumpVars, sensor, reading, track, twin, loop>>

\* ------------------------------------------------------------ the main loop
\* The main thread in `while (True)` (flora.py:520-616), daemon mode:
\*   pc     "man" before man_irrigation (line 522), "auto" before the
\*          auto_irrigation test (525), "alerts" before the alert calls (528),
\*          "poll" before the test of the sleep loop (610), "sleep" in
\*          sleep(1) (612)
\*   step   passes of `for step in range(period)` made
\* and what an observer has seen:
\*   acc    per pump, where the main thread was when the pending command was
\*          accepted: "sleep" (in the sleep loop), "tick" (elsewhere), "none"
\*   was    acc as it was when the latest man_irrigation call began
\*   late   with a command pending that was accepted in the sleep loop, a
\*          sleep(1) was begun or the tick went on to auto_irrigation or the
\*          alerts
LoopStart == [pc |-> "man", step |-> 0,
              acc |-> [p \in PumpIdx |-> "none"],
              was |-> [p \in PumpIdx |-> "none"],
              late |-> FALSE]

\* a command accepted in the sleep loop is pending
SleepPending == \E p \in PumpIdx : loop.acc[p] = "sleep"

\* irrigation.man_irrigation(settings, mqtt_client, pump) (flora.py:522)
LoopMan ==
    /\ loop.pc = "man"
    /\ ManIrrigation
    /\ loop' = [loop EXCEPT !.pc = "auto", !.was = loop.acc,
                            !.acc = [p \in PumpIdx |-> "none"]]
    /\ UNCHANGED <<pumpVars, sensor, reading, track, twin, other>>

\* if (settings.auto_irrigation): settings.irr_scheduled =
\* irrigation.auto_irrigation(settings, sensors, pump) (flora.py:525-526);
\* settings.auto_irrigation is as the callback mqtt_auto_irr_ctrl left it
\* (flora.py:308)
LoopAuto ==
    /\ exc = "none"
    /\ loop.pc = "auto"
    /\ \E enabled \in BOOLEAN :
          IF enabled
          THEN \E sensors \in TwiceDicts, hm \in TwiceTimes :
                  CommitIrr("auto_irrigation", sensors, hm,
                            auto_irrigation(settings, sensors, pumps, hm, now,
                                            [p \in PumpIdx |-> GoodRun]))
          ELSE UNCHANGED <<alertVars, irrVars, exc>>
    /\ loop' = [loop EXCEPT !.pc = IF exc' = "none" THEN "alerts" ELSE @,
                            !.late = @ \/ SleepPending]
    /\ UNCHANGED <<pumpVars, sensor, reading, track, twin, other>>

\* the alert calls and the reports (flora.py:528-600), which leave the pumps
\* alone
LoopAlerts ==
    /\ exc = "none"
    /\ loop.pc = "alerts"
    /\ loop' = [loop EXCEPT !.pc = "poll", !.step = 0, !.late = @ \/ SleepPending]
    /\ UNCHANGED <<alertVars, irrVars, pumpVars, sensor, reading, track, twin,
                   other, exc>>

QuitSleeping_never(ps) == FALSE

\* `if (pump.busy): break` (flora.py:610-611), for the pump objects the
\* command callback marks
QuitSleeping(ps) == \E p \in PumpIdx : ps[p].busy # 0

\* for step in range(period): if (pump.busy): break (flora.py:607-611)
LoopPoll ==
    /\ exc = "none"
    /\ loop.pc = "poll"
    /\ loop' = IF loop.step >= MaxPeriod \/ QuitSleeping(pumps)
               THEN [loop EXCEPT !.pc = "man"]
               ELSE [loop EXCEPT !.pc = "sleep", !.late = @ \/ SleepPending]
    /\ UNCHANGED <<alertVars, irrVars, pumpVars, sensor, reading, track, twin,
                   other, exc>>

\* sleep(1) returns (flora.py:612)
LoopSleep ==
    /\ exc = "none"
    /\ loop.pc = "sleep"
    /\ loop' = [loop EXCEPT !.pc = "poll", !.step = @ + 1]
    /\ UNCHANGED <<alertVars, irrVars, pumpVars, sensor, reading, track, twin,
                   other, exc>>

\* the callback mqtt_man_irr_cmd accepts a command for pump p (flora.py:224-243)
\* while the main thread is anywhere in the loop
LoopCmd(p) ==
    /\ ManIrrCmd(p)
    /\ loop' = [loop EXCEPT !.acc[p] = IF loop.pc \in {"poll", "sleep"}
                                       THEN "sleep" ELSE "tick"]
    /\ UNCHANGED <<pumpVars, sensor, reading, track, twin, other>>

InitRuns ==
    /\ other = NoOther
    /\ loop = LoopStart

\* the sensor, the histories and the second process as constructed
InitAux ==
    /\ sensor = SensorNew(MaxTout)
    /\ reading = NoReading
    /\ track = NoTrack
    /\ twin = NoTwin
    /\ InitRuns

\* the alert instances at construction (alert.py:70-89), modes m
InitAlert(m) ==
    /\ now = Epoch
    /\ alert_tstamp = 0
    /\ mode = m
    /\ tstamp = [f \in Filters |-> AlertNew(m[f]).tstamp]
    /\ flag = [f \in Filters |-> AlertNew(m[f]).flag]
    /\ val_ul = [f \in Filters |-> AlertNew(m[f]).val_ul]
    /\ val_oh = [f \in Filters |-> AlertNew(m[f]).val_oh]
    /\ status = [f \in Filters |-> AlertNew(m[f]).status]
    /\ exc = "none"
    /\ last = NoCall
    /\ hist = [f \in Filters |-> {}]
    /\ coupled = [f \in Filters |-> FALSE]
    /\ owed = [f \in Filters |-> FALSE]
    /\ firer = "none"

\* Alert engine: two instances of any modes; the irrigation objects stay as
\* constructed.
Init ==
    /\ defer_time \in DeferTimes
    /\ repeat_time \in RepeatTimes
    /\ \E m \in [Filters -> Modes] : InitAlert(m)
    /\ settings = SettingsNew(<<22, 0, 6, 0>>)
    /\ pumps = [p \in PumpIdx |-> PumpNew]
    /\ lastIrr = NoIrrCall
    /\ InitOutputs
    /\ InitAux

Next ==
    \/ Advance /\ UNCHANGED <<irrVars, pumpVars, auxVars>>
    \/ \E f \in SensorFilters : CheckSensors(f)
                                  /\ UNCHANGED <<irrVars, pumpVars, auxVars>>
    \/ \E f \in SystemFilters : CheckSystem(f)
                                  /\ UNCHANGED <<irrVars, pumpVars, auxVars>>

Spec == Init /\ [][Next]_vars

\* Irrigation: the settings are drawn from the night configurations; the
\* pumps handed to Irrigation are as constructed, except that the application
\* owns Pump.timestamp (pump.py:51) and may have recorded a run at process
\* start.  The alert instances stay as constructed.
InitIrr ==
    /\ defer_time = MaxDefer
    /\ repeat_time = MaxRepeat
    /\ InitAlert([f \in Filters |-> 0])
    /\ settings \in {SettingsNew(n) : n \in NightConfigs}
    /\ pumps \in [PumpIdx -> {[PumpNew EXCEPT !.timestamp = ts] : ts \in {0, Epoch}}]
    /\ lastIrr = NoIrrCall
    /\ InitOutputs
    /\ InitAux

NextIrr ==
    \/ AdvanceIrr /\ UNCHANGED <<pumpVars, auxVars>>
    \/ AutoIrrigation /\ UNCHANGED <<pumpVars, auxVars>>
    \/ ManIrrigation /\ UNCHANGED <<pumpVars, auxVars>>
    \/ \E p \in PumpIdx : ManIrrCmd(p) /\ UNCHANGED <<pumpVars, auxVars>>

SpecIrr == InitIrr /\ [][NextIrr]_vars

\* The scheduler tick alone (flora.py:524-526): the pumps are as constructed
\* and settings.irr_scheduled holds the flags a previous tick's assignment
\* left in it.
InitSched ==
    /\ defer_time = MaxDefer
    /\ repeat_time = MaxRepeat
    /\ InitAlert([f \in Filters |-> 0])
    /\ \E n \in NightConfigs, sch \in [PumpIdx -> BOOLEAN] :
          settings = [SettingsNew(n) EXCEPT !.irr_scheduled = sch]
    /\ pumps = [p \in PumpIdx |-> PumpNew]
    /\ lastIrr = NoIrrCall
    /\ InitOutputs
    /\ InitAux

NextSched ==
    \/ AdvanceIrr /\ UNCHANGED <<pumpVars, auxVars>>
    \/ AutoIrrigation /\ UNCHANGED <<pumpVars, auxVars>>

SpecSched == InitSched /\ [][NextSched]_vars

\* Manual irrigation alone (flora.py:522) with the command callback: the
\* scheduler's state is whatever earlier ticks left, i.e. any flags in
\* settings.irr_scheduled, any night window, pumps that ran at process start
\* or not and that are idle or marked auto-running.
InitMan ==
    /\ defer_time = MaxDefer
    /\ repeat_time = MaxRepeat
    /\ InitAlert([f \in Filters |-> 0])
    /\ \E n \in NightConfigs, sch \in [PumpIdx -> BOOLEAN] :
          settings = [SettingsNew(n) EXCEPT !.irr_scheduled = sch]
    /\ pumps \in [PumpIdx -> {[PumpNew EXCEPT !.timestamp = ts, !.busy = b] :
                                 ts \in {0, Epoch}, b \in {0, PUMP_BUSY_AUTO}}]
    /\ lastIrr = NoIrrCall
    /\ InitOutputs
    /\ InitAux

NextMan ==
    \/ AdvanceIrr /\ UNCHANGED <<pumpVars, auxVars>>
    \/ ManIrrigation /\ UNCHANGED <<pumpVars, auxVars>>
    \/ \E p \in PumpIdx : ManIrrCmd(p) /\ UNCHANGED <<pumpVars, auxVars>>

SpecMan == InitMan /\ [][NextMan]_vars

\* The scheduler tick beside the same tick with other readings of the other
\* pump's sensors.  Night window 22:00-06:00; the pumps ran at process start
\* or not and are idle.
InitTwice ==
    /\ defer_time = MaxDefer
    /\ repeat_time = MaxRepeat
    /\ InitAlert([f \in Filters |-> 0])
    /\ settings = SettingsNew(<<22, 0, 6, 0>>)
    /\ pumps \in [PumpIdx -> {[PumpNew EXCEPT !.timestamp = ts] : ts \in {0, Epoch}}]
    /\ lastIrr = NoIrrCall
    /\ InitOutputs
    /\ InitAux

NextTwice ==
    \/ AdvanceIrr /\ UNCHANGED <<pumpVars, auxVars>>
    \/ \E p \in PumpIdx : AutoIrrigationTwice(p)

SpecTwice == InitTwice /\ [][NextTwice]_vars

\* The main loop in daemon mode with the command callback interleaved.
\* Night window 22:00-06:00, both pumps idle.
InitLoop ==
    /\ defer_time = MaxDefer
    /\ repeat_time = MaxRepeat
    /\ InitAlert([f \in Filters |-> 0])
    /\ settings = SettingsNew(<<22, 0, 6, 0>>)
    /\ pumps = [p \in PumpIdx |-> PumpNew]
    /\ lastIrr = NoIrrCall
    /\ InitOutputs
    /\ InitAux

NextLoop ==
    \/ LoopMan
    \/ LoopAuto
    \/ LoopAlerts
    \/ LoopPoll
    \/ LoopSleep
    \/ \E p \in PumpIdx : LoopCmd(p)

SpecLoop == InitLoop /\ [][NextLoop]_vars

\* Manual irrigation by step, with the MQTT callbacks interleaved.  The
\* application owns Pump.busy (pump.py:50): each pump starts idle or marked
\* auto-running.
InitPump ==
    /\ defer_time = MaxDefer
    /\ repeat_time = MaxRepeat
    /\ InitAlert([f \in Filters |-> 0])
    /\ settings = SettingsNew(<<22, 0, 6, 0>>)
    /\ pumps \in [PumpIdx -> {[PumpNew EXCEPT !.busy = b] : b \in {0, PUMP_BUSY_AUTO}}]
    /\ lastIrr = NoIrrCall
    /\ InitOutputs
    /\ InitAux

NextPump ==
    \/ ManBegin /\ UNCHANGED auxVars
    \/ ManTest /\ UNCHANGED auxVars
    \/ PoCall /\ UNCHANGED auxVars
    \/ PoHigh /\ UNCHANGED auxVars
    \/ PoLoop /\ UNCHANGED auxVars
    \/ PoLow /\ UNCHANGED auxVars
    \/ ManDone /\ UNCHANGED auxVars
    \/ \E p \in PumpIdx : ManIrrCmdAsync(p) /\ UNCHANGED auxVars
    \/ \E p \in PumpIdx : ManIrrCmdIgnored(p) /\ UNCHANGED auxVars
    \/ \E d \in 0..MaxDuration : ManIrrDurationCtrl(d) /\ UNCHANGED auxVars

SpecPump == InitPump /\ [][NextPump]_vars

\* a step of the power_on call that the main thread is in
PowerOnStep == (PoCall \/ PoHigh \/ PoLoop \/ PoLow) /\ UNCHANGED auxVars

\* power_on is straight-line code of the main thread between its waits:
\* GPIO reads and writes return, and sleep(0.5) and sleep(1) (pump.py:121,
\* 129) return after their time, so a call that is in progress takes its
\* next step.
SpecPumpLive == SpecPump /\ WF_vars(PowerOnStep)

\* One sensor, its messages and the clock.  Everything else stays as
\* constructed.
InitSensor ==
    /\ defer_time = MaxDefer
    /\ repeat_time = MaxRepeat
    /\ InitAlert([f \in Filters |-> 0])
    /\ settings = SettingsNew(<<22, 0, 6, 0>>)
    /\ pumps = [p \in PumpIdx |-> PumpNew]
    /\ lastIrr = NoIrrCall
    /\ InitOutputs
    /\ sensor \in {SensorNew(tout) : tout \in SensorTimeouts}
    /\ reading = NoReading
    /\ track = NoTrack
    /\ twin = NoTwin
    /\ InitRuns

NextSensor ==
    \/ MqttOnMessage
    \/ AdvanceSensor

SpecSensor == InitSensor /\ [][NextSensor]_vars

\* Alert engine, one two-flag category: a single instance of any mode is
\* driven through check_sensors(sensors, attr1, attr2).
InitVec ==
    /\ defer_time \in DeferTimes
    /\ repeat_time \in RepeatTimes
    /\ \E m \in [Filters -> Modes] :
          /\ \A f \in SystemFilters : m[f] = 0
          /\ InitAlert(m)
    /\ settings = SettingsNew(<<22, 0, 6, 0>>)
    /\ pumps = [p \in PumpIdx |-> PumpNew]
    /\ lastIrr = NoIrrCall
    /\ InitOutputs
    /\ InitAux

NextVec ==
    \/ Advance /\ UNCHANGED <<irrVars, pumpVars, auxVars>>
    \/ \E f \in SensorFilters : CheckSensorsTracked(f, TRUE, FlagCases)

SpecVec == InitVec /\ [][NextVec]_vars

\* Alert engine, two categories sharing Alert.alert_tstamp: instance A of any
\* mode watches one flag of one sensor, instance B is a system alert of a
\* firing mode; the histories of fires and edges are kept.
SystemModes == {1, 4}

InitShared ==
    /\ defer_time \in DeferTimes
    /\ repeat_time \in RepeatTimes
    /\ \E m \in [Filters -> Modes] :
          /\ \A f \in SystemFilters : m[f] \in SystemModes
          /\ InitAlert(m)
    /\ settings = SettingsNew(<<22, 0, 6, 0>>)
    /\ pumps = [p \in PumpIdx |-> PumpNew]
    /\ lastIrr = NoIrrCall
    /\ InitOutputs
    /\ InitAux

NextShared ==
    \/ Advance /\ UNCHANGED <<irrVars, pumpVars, auxVars>>
    \/ \E f \in SensorFilters : CheckSensorsTracked(f, FALSE, OneFlagCases)
    \/ \E f \in SystemFilters : CheckSystemTracked(f)

SpecShared == InitShared /\ [][NextShared]_vars

\* Two processes side by side: a check_sensors instance over one sensor and
\* a check_system instance of the same mode, constructed alike and fed the
\* same values at the same times.
InitEquiv ==
    /\ defer_time \in DeferTimes
    /\ repeat_time \in RepeatTimes
    /\ \E m \in [Filters -> Modes] :
          /\ \A f \in SystemFilters : m[f] = 0
          /\ InitAlert(m)
          /\ \A f \in SensorFilters : twin = [NoTwin EXCEPT !.self = AlertNew(m[f])]
    /\ settings = SettingsNew(<<22, 0, 6, 0>>)
    /\ pumps = [p \in PumpIdx |-> PumpNew]
    /\ lastIrr = NoIrrCall
    /\ InitOutputs
    /\ sensor = SensorNew(MaxTout)
    /\ reading = NoReading
    /\ track = NoTrack
    /\ InitRuns

NextEquiv ==
    \/ Advance /\ UNCHANGED <<irrVars, pumpVars, auxVars>>
    \/ \E f \in SensorFilters : PairCheck(f)

SpecEquiv == InitEquiv /\ [][NextEquiv]_vars

\* ------------------------------------------------------ alert properties
Called == last.op \in {"check_sensors", "check_system"}

\* C1: a call of a mode 1 or mode 2 instance that is fed a rising edge on some
\* monitored bit returns True (and does not raise), however recent the latest
\* alert of any instance is.
C1_ImmediateOnEdge ==
    (Called /\ mode[last.f] \in {1, 2} /\ last.edge)
        => (last.exc = "none" /\ last.alert)

C1_Witness ==
    /\ Called /\ mode[last.f] = 2 /\ last.edge /\ last.alert
    /\ ~last.late /\ firer # "none"

\* C2: a call of a mode 0 instance never returns True, never raises and leaves
\* Alert.alert_tstamp as it was, whatever it is fed and whenever.
C2_ModeZeroSilent ==
    (Called /\ mode[last.f] = 0)
        => (~last.alert /\ last.exc = "none" /\ last.ats_kept)

C2_Witness ==
    /\ Called /\ mode[last.f] = 0 /\ last.edge /\ last.late /\ ~last.alert
    /\ flag[last.f]

C4_Mode2Repeat ==
    (Called /\ mode[last.f] = 2 /\ last.active /\ last.due)
        => (last.exc = "none" /\ last.alert /\ last.restarted)

\* C5: a mode 3 instance that returns True ends the call with flag = False, and
\* it returns True only if a rising edge was fed to it since it last fired.
C5_Mode3OneShot ==
    (Called /\ mode[last.f] = 3 /\ last.alert)
        => (flag[last.f] = FALSE /\ last.fresh)

C5_Witness ==
    /\ Called /\ mode[last.f] = 3 /\ last.active /\ last.late
    /\ ~last.fresh /\ ~last.alert /\ ~flag[last.f]

C7_InactiveResets ==
    (Called /\ ~last.active) => (tstamp[last.f] = 0 /\ flag[last.f] = FALSE)

C7_Witness ==
    /\ Called /\ ~last.active /\ last.pending /\ last.due
    /\ tstamp[last.f] = 0 /\ ~flag[last.f]

\* C8: in every mode, a call that is fed a fully inactive category returns
\* False (a True return implies an active category), and a deferred alert
\* still pending at that call is dropped: no flag survives the call.
C8_NoFireWhenInactive ==
    /\ (Called /\ ~last.active) => (~last.alert /\ last.exc = "none" /\ ~flag[last.f])
    /\ (Called /\ last.alert) => last.active

C8_Witness ==
    /\ Called /\ ~last.active /\ mode[last.f] \in {3, 4} /\ last.pending
    /\ last.late /\ ~last.alert


\* ------------------------------------------------- irrigation properties
AutoCalled == lastIrr.op = "auto_irrigation"

RunsOf(p) == SelectSeq(lastIrr.runs, LAMBDA r : r[1] = p)

AutoDuration(p) == IF p = 0 THEN settings.irr_duration_auto1
                            ELSE settings.irr_duration_auto2

\* C9: a call of auto_irrigation outside the night window, for an eligible
\* pump whose rest period has elapsed and whose busy is idle, drives that pump
\* exactly once for its auto duration, sets its timestamp to now, leaves busy
\* idle and returns scheduled = False for it.
C9_SchedulerFires ==
    \A p \in PumpIdx :
        (AutoCalled /\ lastIrr.day /\ lastIrr.elig[p] /\ lastIrr.rested[p]
                    /\ lastIrr.idle[p])
            => /\ lastIrr.returned
               /\ RunsOf(p) = << <<p, AutoDuration(p)>> >>
               /\ lastIrr.stamped[p]
               /\ pumps[p].busy = 0
               /\ lastIrr.schedule[p] = FALSE

C12_NightMembership ==
    AutoCalled => ((lastIrr.skipped <=> ~lastIrr.day) /\ lastIrr.exc # "ValueError")

C19_BusyPumpLeftAlone ==
    \A p \in PumpIdx :
        (AutoCalled /\ lastIrr.day /\ lastIrr.elig[p] /\ lastIrr.rested[p]
                    /\ ~lastIrr.idle[p])
            => /\ lastIrr.returned
               /\ RunsOf(p) = <<>>
               /\ lastIrr.busy_kept[p]
               /\ lastIrr.ts_kept[p]
               /\ lastIrr.schedule[p] = FALSE

\* the latest call was auto_irrigation and went past the night-time test
Evaluated == AutoCalled /\ ~lastIrr.skipped /\ lastIrr.exc # "ValueError"

C36_AcceptedIsServed ==
    exc # "none" => \A p \in PumpIdx : pumps[p].busy # PUMP_BUSY_MAN

InProgress(p) == main.pc \in {"po_call", "po_high", "po_loop", "po_low"} /\ main.i = p

\* every loop iteration of the latest call read the driver HIGH and the tank
\* not empty
AllGood == \A k \in DOMAIN obs.reads : obs.reads[k] = <<TRUE, FALSE>>

\* C13: when the tank reads empty as power_on is invoked, the call is over at
\* once with status 1: the output was never set HIGH, no settle wait, no loop
\* iteration and no one-second wait was made.
C13_TankEmptyAtCall ==
    obs.empty0 =>
        /\ obs.done /\ obs.ret = 1 /\ pumps[obs.p].status = 1
        /\ ~obs.high /\ ~obs.settle /\ obs.reads = <<>> /\ obs.sleeps = 0
        /\ p_power[obs.p] = GPIO_LOW
        /\ ~InProgress(obs.p)

C13_Witness ==
    /\ obs.empty0 /\ obs.done /\ obs.ret = 1 /\ ~obs.high
    /\ obs.dur = MaxDuration /\ main.pc = "man_done"

\* C14: the first loop iteration on which the driver status does not read
\* HIGH is the last one: the loop is left without a further iteration or
\* one-second wait, the status is 2 whatever the tank reads on that iteration,
\* and the call returns 2 with the output LOW.
C14_DriverFault ==
    \A k \in DOMAIN obs.reads :
        ~obs.reads[k][1] =>
            /\ k = Len(obs.reads)
            /\ obs.sleeps = k - 1
            /\ main.pc # "po_loop"
            /\ pumps[obs.p].status = 2
            /\ obs.done => (obs.ret = 2 /\ p_power[obs.p] = GPIO_LOW)

C14_Witness ==
    /\ obs.done /\ Len(obs.reads) = MaxDuration
    /\ obs.reads[MaxDuration] = <<FALSE, TRUE>>
    /\ obs.ret = 2 /\ obs.sleeps = MaxDuration - 1 /\ p_power[obs.p] = GPIO_LOW

\* C15: the power output of a pump is LOW in every state in which no power_on
\* call is in progress for that pump.
C15_OutputLowOutsideRun ==
    \A p \in PumpIdx : ~InProgress(p) => p_power[p] = GPIO_LOW

C15_Witness ==
    /\ obs.done /\ obs.high /\ obs.ret = 2 /\ ~InProgress(obs.p)
    /\ p_power[obs.p] = GPIO_LOW

C33_PowerOnTerminates ==
    /\ [](/\ Len(obs.reads) <= obs.dur
          /\ \A p \in PumpIdx : InProgress(p) => main.k <= main.on_time
          /\ (obs.done /\ ~obs.empty0 /\ AllGood)
                => /\ Len(obs.reads) = obs.dur /\ obs.sleeps = obs.dur
                   /\ obs.ret = 0 /\ pumps[obs.p].status = 0
          /\ (obs.done /\ ~obs.empty0 /\ obs.dur = 0)
                => /\ obs.high /\ obs.settle /\ obs.reads = <<>>
                   /\ obs.sleeps = 0 /\ obs.ret = 0
                   /\ p_power[obs.p] = GPIO_LOW)
    /\ \A p \in PumpIdx : InProgress(p) ~> (obs.done /\ ~InProgress(p))

C33_Witness ==
    /\ obs.done /\ ~obs.empty0 /\ obs.dur = MaxDuration
    /\ Len(obs.reads) = MaxDuration /\ AllGood
    /\ obs.ret = 0 /\ main.pc = "man_done"

\* C34: the first loop iteration that reads the tank empty with the driver
\* HIGH is the last one: every earlier iteration read the tank not empty and
\* was followed by its one-second wait, no wait and no iteration follows this
\* one, the status is 1, and the call returns 1 with the output LOW.  The
\* output stays HIGH for at most the one wait that lies between the last
\* reading of a filled tank and the reading of the empty one.
C34_TankDryInRun ==
    \A k \in DOMAIN obs.reads :
        obs.reads[k] = <<TRUE, TRUE>> =>
            /\ k = Len(obs.reads)
            /\ \A j \in 1..(k - 1) : obs.reads[j] = <<TRUE, FALSE>>
            /\ obs.sleeps = k - 1
            /\ main.pc \in {"po_low", "man_done", "man_test", "idle"}
            /\ main.pc = "po_low" <=> ~obs.done
            /\ pumps[obs.p].status = 1
            /\ obs.done => (obs.ret = 1 /\ p_power[obs.p] = GPIO_LOW)

C34_Witness ==
    /\ obs.done /\ ~obs.empty0 /\ Len(obs.reads) = MaxDuration
    /\ obs.reads[MaxDuration] = <<TRUE, TRUE>>
    /\ obs.ret = 1 /\ obs.sleeps = MaxDuration - 1 /\ p_power[obs.p] = GPIO_LOW

\* C35: a pump's status changes only on a step of a power_on call for that
\* pump: at the start of the call it becomes 0, or 1 when the tank reads
\* empty, and in the loop it becomes the outcome; on every other step,
\* between runs too, it keeps its value.  No step of power_on changes the
\* busy or the timestamp of any pump: busy changes only when man_irrigation
\* clears it after the run and when the command handler accepts a command.
C35_StatusOnlyByPowerOn ==
    [][\A p \in PumpIdx :
          /\ pumps'[p].status # pumps[p].status
                => /\ InProgress(p) /\ main' # main
                   /\ main.pc \in {"po_call", "po_loop"}
                   /\ main.pc = "po_loop" => pumps'[p].status \in {1, 2}
          /\ (main.pc = "po_call" /\ main.i = p /\ main' # main)
                => pumps'[p].status = (IF obs'.empty0 THEN 1 ELSE 0)
          /\ ((\E q \in PumpIdx : InProgress(q)) /\ main' # main)
                => /\ pumps'[p].busy = pumps[p].busy
                   /\ pumps'[p].timestamp = pumps[p].timestamp
          /\ pumps'[p].busy # pumps[p].busy
                => \/ main.pc = "man_done" /\ main.i = p /\ main' # main
                   \/ obs'.ev = "cmd" /\ obs'.cmd.p = p /\ obs'.cmd.taken
                         /\ main' = main
          /\ pumps'[p].timestamp = pumps[p].timestamp]_vars

C35_Witness ==
    /\ pumps[0].status = 2 /\ pumps[0].busy = 0
    /\ InProgress(1) /\ obs.high /\ pumps[1].status = 0
    /\ pumps[1].busy = PUMP_BUSY_MAN

C22_Mode4RepeatSpacing ==
    (Called /\ mode[last.f] = 4 /\ last.active /\ ~last.fresh /\ track.again)
        => (last.alert <=> track.waited)

\* C23: a call that feeds a mode 3 or mode 4 instance the first rising edge it
\* has ever seen returns True.
C23_FirstEdgeFires ==
    (Called /\ mode[last.f] \in {3, 4} /\ track.first) => last.alert

\* C24 (as claimed): an instance's flag is set only while the instance has
\* been fed the active state since its latest rising edge and, in the
\* one-shot modes 1 and 3, the alert for that edge has not been returned yet;
\* the flag is clear after a call on which a mode 1 or mode 3 instance
\* returned True.
C24_FlagUntilDelivered ==
    /\ \A f \in Filters :
          flag[f] => (hist[f] # {} /\ (mode[f] \in {1, 3} => owed[f]))
    /\ (Called /\ mode[last.f] \in {1, 3} /\ last.alert) => ~flag[last.f]

\* C24 (amended): an instance's flag is set exactly while the instance has
\* been fed the active state on every call since a rising edge and, in mode 3
\* only, no call has returned True since that edge.  In modes 0, 1, 2 and 4
\* the flag stays set for as long as the state is active, also after an alert.
C24_FlagWhileActive ==
    \A f \in Filters :
        flag[f] <=> (hist[f] # {} /\ (mode[f] = 3 => owed[f]))

C24_Witness ==
    /\ Called /\ mode[last.f] = 1 /\ last.alert
    /\ flag[last.f]

C27_SharedAlertTime ==
    /\ alert_tstamp = track.fired_at
    /\ alert_tstamp <= now
    /\ Called => /\ ~last.alert => last.ats_kept
                 /\ ~track.back

C27_Witness ==
    /\ Called /\ last.alert /\ mode[last.f] \in {1, 2}
    /\ \E g \in Filters \ {last.f} : track.myfire[g] # 0 /\ track.myfire[g] < now

\* ---------------------------------------- alert properties, state vectors
\* C28: a check_sensors call on which one sensor's violation has cleared and
\* another sensor's violation has newly appeared detects a rising edge: it
\* ends with last_change_time = now and, as for any other edge, with the flag
\* set (unless a mode 3 instance returned True) and with the return value of
\* the mode: True in modes 1 and 2, True in modes 3 and 4 exactly when more
\* than defer_time has passed since the latest alert, False in mode 0.
C28_PerBitEdge ==
    (Called /\ last.op = "check_sensors" /\ track.swap) =>
        /\ track.changed
        /\ last.restarted
        /\ flag[last.f] <=> ~(mode[last.f] = 3 /\ last.alert)
        /\ mode[last.f] \in {1, 2} => last.alert
        /\ mode[last.f] \in {3, 4} => (last.alert <=> last.late)
        /\ mode[last.f] = 0 => ~last.alert

C28_Witness ==
    /\ Called /\ last.op = "check_sensors" /\ track.swap
    /\ last.restarted /\ last.alert

\* C29 (as claimed): with attr1 and attr2 given, a check_sensors call detects
\* a rising edge exactly when some sensor violates at least one of the two
\* flags now and violated neither of them on the previous call.
C29_EdgePerSensor ==
    (Called /\ last.op = "check_sensors") => (track.changed <=> track.sensedge)

\* C29 (amended): with attr1 and attr2 given there are two state vectors, one
\* per flag, each with one bit per sensor, set exactly when that sensor
\* violates that flag; a rising edge is detected exactly when some sensor
\* violates a flag now that it did not violate on the previous call (a sensor
\* that changes from one flag to the other is an edge).
C29_EdgePerFlag ==
    /\ \A f \in SensorFilters, i \in SensorIdx :
          /\ Bit(val_ul[f], i) = 1 <=> <<"ul", i>> \in hist[f]
          /\ Bit(val_oh[f], i) = 1 <=> <<"oh", i>> \in hist[f]
    /\ (Called /\ last.op = "check_sensors") => (track.changed <=> last.edge)

C29_Witness ==
    /\ Called /\ last.op = "check_sensors"
    /\ track.changed /\ ~track.sensedge

C21_ValidIffFresh ==
    reading.valid <=> (reading.age >= 0 /\ reading.age < sensor.tout)

C21_Witness ==
    /\ reading.age = sensor.tout
    /\ sensor.tstamp # 0
    /\ ~reading.valid

\* C40: a message whose moisture is zero while the stored moisture is above 5
\* leaves the sensor as it was: values, comparison flags and time stamp (so
\* the sensor's validity runs out as if no message had come).  After every
\* other message the five values are those of the message (temperature as
\* sent, the others without their fraction), each comparison flag says how
\* the message's value lies to its limit, and the time stamp is the time of
\* reception.
C40_PlausibilityFilter ==
    reading.ev = "msg" =>
        LET m == reading.msg
        IN  IF m.moisture = 0 /\ reading.before.moist > 5
            THEN /\ sensor = reading.before
                 /\ reading.valid <=> (reading.age >= 0 /\ reading.age < sensor.tout)
                 /\ reading.age # 0 \/ sensor.tstamp = now
            ELSE /\ sensor.tstamp = now /\ reading.age = 0 /\ reading.valid
                 /\ sensor.temp = m.temperature
                 /\ 10 * sensor.cond <= m.conductivity
                 /\ m.conductivity < 10 * sensor.cond + 10
                 /\ 10 * sensor.moist <= m.moisture
                 /\ m.moisture < 10 * sensor.moist + 10
                 /\ 10 * sensor.light <= m.light /\ m.light < 10 * sensor.light + 10
                 /\ 10 * sensor.batt <= m.battery
                 /\ m.battery < 10 * sensor.batt + 10
                 /\ sensor.flags.batt_ul <=> m.battery < 10 * Plant.batt_min
                 /\ sensor.flags.temp_ul <=> m.temperature < 10 * Plant.temp_min
                 /\ sensor.flags.temp_oh <=> m.temperature > 10 * Plant.temp_max
                 /\ sensor.flags.cond_ul <=> m.conductivity < 10 * Plant.cond_min
                 /\ sensor.flags.cond_oh <=> m.conductivity >= 10 * (Plant.cond_max + 1)
                 /\ sensor.flags.moist_ul <=> m.moisture < 10 * Plant.moist_min
                 /\ sensor.flags.moist_ll <=>
                       (m.moisture >= 10 * Plant.moist_min
                           /\ m.moisture < 10 * Plant.moist_lo)
                 /\ sensor.flags.moist_hl <=>
                       (m.moisture >= 10 * (Plant.moist_hi + 1)
                           /\ m.moisture < 10 * (Plant.moist_max + 1))
                 /\ sensor.flags.moist_oh <=> m.moisture >= 10 * (Plant.moist_max + 1)
                 /\ sensor.flags.light_ul <=> m.light < 10 * Plant.light_min
                 /\ sensor.flags.light_il <=> m.light >= 10 * (Plant.light_irr + 1)
                 /\ sensor.flags.light_oh <=> m.light >= 10 * (Plant.light_max + 1)

C40_Witness ==
    /\ reading.ev = "msg" /\ reading.msg.moisture = 0
    /\ reading.before.moist > 5 /\ sensor = reading.before
    /\ reading.msg.battery # 10 * sensor.batt
    /\ sensor.tstamp # 0 /\ reading.age >= sensor.tout /\ ~reading.valid

====
